---------------------------- MODULE Spec2Model ----------------------------
(***************************************************************************)
(* A model of yal (src/main.rs): the configuration parser, the entry       *)
(* resolver, the ordering policy and the column renderer.                  *)
(*                                                                         *)
(* Strings are sequences of character codes (Unicode scalar values); every *)
(* string whose length the program takes is ASCII in this model, so        *)
(* String::len (bytes) and the width of {:>w$} (chars) agree with Len.     *)
(***************************************************************************)
EXTENDS Integers, Sequences, FiniteSets, TLC

VARIABLES
    pc,            \* position in main / in the function under test
    os,            \* results of env::current_dir and fs::read_dir
    config,        \* Config
    line,          \* the config line parse_config processed last
    nlines,        \* number of config lines parse_config has processed
    name_cache,    \* NameCache
    listing,       \* the items fs::read_dir has yielded so far, with the
                   \* outcome of the metadata read when one was attempted
    file_entries,  \* Vec<FileEntry> of main
    widths,        \* (max_perms_len, max_owner_len, max_group_len, max_modified_len)
    next_entry,    \* index of the next entry the display loop prints
    out,           \* lines written to standard output
    result,        \* "running", "ok" (Ok(())) or "err" (Err returned by main)
    arg,           \* argument of the function under test
    ret            \* its return value

vars == <<pc, os, config, line, nlines, name_cache, listing, file_entries,
          widths, next_entry, out, result, arg, ret>>

None == [none |-> TRUE]

---------------------------------------------------------------------------
(* Bounds of the model. *)

\* Config lines parse_config processes in one run of the parser model.
MaxLines == 2
\* Items the directory enumeration yields.
MaxEntries == 3
\* Seconds examined on each side of a bucket edge of format_duration_since.
Slack == 2

---------------------------------------------------------------------------
(* str helpers. *)

SP == 32      \* ' '
DOT == 46     \* '.'
HASH == 35    \* '#'
EQ == 61      \* '='
COMMA == 44   \* ','
ESC == 27     \* '\x1b'

\* char::is_whitespace restricted to ASCII
IsWhitespace(c) == c \in {9, 10, 11, 12, 13, 32}

\* str::to_lowercase restricted to ASCII
LowerChar(c) == IF c >= 65 /\ c <= 90 THEN c + 32 ELSE c
ToLowercase(s) == [i \in 1..Len(s) |-> LowerChar(s[i])]

RECURSIVE TrimStart(_)
TrimStart(s) ==
    IF s # <<>> /\ IsWhitespace(Head(s)) THEN TrimStart(Tail(s)) ELSE s

RECURSIVE TrimEnd(_)
TrimEnd(s) ==
    IF s # <<>> /\ IsWhitespace(s[Len(s)])
    THEN TrimEnd(SubSeq(s, 1, Len(s) - 1)) ELSE s

\* str::trim
Trim(s) == TrimEnd(TrimStart(s))

\* str::starts_with(char)
StartsWith(s, c) == s # <<>> /\ s[1] = c

\* position of the first c in s, 0 when there is none
RECURSIVE Find(_, _, _)
Find(s, c, i) ==
    IF i > Len(s) THEN 0 ELSE IF s[i] = c THEN i ELSE Find(s, c, i + 1)

\* str::split(char): the pieces between the separators (always at least one)
RECURSIVE Split(_, _)
Split(s, c) ==
    LET k == Find(s, c, 1)
    IN  IF k = 0 THEN <<s>>
        ELSE <<SubSeq(s, 1, k - 1)>> \o Split(SubSeq(s, k + 1, Len(s)), c)

\* Ord of str: lexicographic on the character codes
RECURSIVE StrCmp(_, _)
StrCmp(a, b) ==
    IF a = <<>> /\ b = <<>> THEN "Equal"
    ELSE IF a = <<>> THEN "Less"
    ELSE IF b = <<>> THEN "Greater"
    ELSE IF Head(a) < Head(b) THEN "Less"
    ELSE IF Head(a) > Head(b) THEN "Greater"
    ELSE StrCmp(Tail(a), Tail(b))

\* [str]::join(sep)
RECURSIVE Join(_, _)
Join(parts, sep) ==
    IF parts = <<>> THEN <<>>
    ELSE IF Len(parts) = 1 THEN parts[1]
    ELSE parts[1] \o sep \o Join(Tail(parts), sep)

\* n in base b, without padding (what {} and {:o} print for an unsigned n)
RECURSIVE Digits(_, _)
Digits(n, b) ==
    IF n < b THEN <<48 + n>> ELSE Digits(n \div b, b) \o <<48 + (n % b)>>

Decimal(n) == Digits(n, 10)

RECURSIVE Spaces(_)
Spaces(n) == IF n <= 0 THEN <<>> ELSE <<SP>> \o Spaces(n - 1)

\* {:>width$} of a string: spaces on the left up to width, never truncated
PadLeft(s, width) == Spaces(width - Len(s)) \o s

---------------------------------------------------------------------------
(* Config *)

S_icon == <<105, 99, 111, 110>>                                       \* "icon"
S_permissions == <<112, 101, 114, 109, 105, 115, 115, 105, 111, 110, 115>> \* "permissions"
S_owner == <<111, 119, 110, 101, 114>>                                \* "owner"
S_group == <<103, 114, 111, 117, 112>>                                \* "group"
S_modified == <<109, 111, 100, 105, 102, 105, 101, 100>>              \* "modified"
S_name == <<110, 97, 109, 101>>                                       \* "name"

K_show_icons == <<115, 104, 111, 119, 95, 105, 99, 111, 110, 115>>    \* "show_icons"
K_show_permissions ==                                                 \* "show_permissions"
    <<115, 104, 111, 119, 95, 112, 101, 114, 109, 105, 115, 115, 105, 111, 110, 115>>
K_show_owner == <<115, 104, 111, 119, 95, 111, 119, 110, 101, 114>>   \* "show_owner"
K_show_group == <<115, 104, 111, 119, 95, 103, 114, 111, 117, 112>>   \* "show_group"
K_show_modified ==                                                    \* "show_modified"
    <<115, 104, 111, 119, 95, 109, 111, 100, 105, 102, 105, 101, 100>>
K_use_fuzzy_time ==                                                   \* "use_fuzzy_time"
    <<117, 115, 101, 95, 102, 117, 122, 122, 121, 95, 116, 105, 109, 101>>
K_column_format ==                                                    \* "column_format"
    <<99, 111, 108, 117, 109, 110, 95, 102, 111, 114, 109, 97, 116>>
K_sort_dirs_first ==                                                  \* "sort_dirs_first"
    <<115, 111, 114, 116, 95, 100, 105, 114, 115, 95, 102, 105, 114, 115, 116>>
K_show_hidden == <<115, 104, 111, 119, 95, 104, 105, 100, 100, 101, 110>> \* "show_hidden"
K_long_format == <<108, 111, 110, 103, 95, 102, 111, 114, 109, 97, 116>>  \* "long_format"
K_column_order == <<99, 111, 108, 117, 109, 110, 95, 111, 114, 100, 101, 114>> \* "column_order"

\* impl Default for Config
DefaultConfig ==
    [ show_icons       |-> TRUE,
      show_permissions |-> TRUE,
      show_owner       |-> TRUE,
      show_group       |-> TRUE,
      show_modified    |-> TRUE,
      use_fuzzy_time   |-> TRUE,
      column_format    |-> TRUE,
      column_order     |-> <<S_icon, S_permissions, S_owner, S_group, S_modified, S_name>>,
      sort_dirs_first  |-> TRUE,
      show_hidden      |-> FALSE,
      long_format      |-> FALSE ]

V_true == <<116, 114, 117, 101>>                       \* "true"
V_yes == <<121, 101, 115>>                             \* "yes"
V_1 == <<49>>                                          \* "1"
V_on == <<111, 110>>                                   \* "on"
V_enabled == <<101, 110, 97, 98, 108, 101, 100>>       \* "enabled"
V_false == <<102, 97, 108, 115, 101>>                  \* "false"
V_no == <<110, 111>>                                   \* "no"
V_0 == <<48>>                                          \* "0"
V_off == <<111, 102, 102>>                             \* "off"
V_disabled == <<100, 105, 115, 97, 98, 108, 101, 100>> \* "disabled"

\* A parse_bool that also takes every unmatched value for true.
ParseBoolUnmatchedTrue(value) ==
    ToLowercase(value) \notin {V_false, V_no, V_0, V_off, V_disabled}

\* Config::parse_bool
ParseBool(value) ==
    LET v == ToLowercase(value)
    IN  CASE v \in {V_true, V_yes, V_1, V_on, V_enabled} -> TRUE
          [] v \in {V_false, V_no, V_0, V_off, V_disabled} -> FALSE
          [] OTHER -> FALSE

\* the column_order arm: split on ',', trim each piece, drop the empty ones
ParseColumnOrder(value) ==
    LET pieces == Split(value, COMMA)
        trimmed == [i \in 1..Len(pieces) |-> Trim(pieces[i])]
    IN  SelectSeq(trimmed, LAMBDA s : s # <<>>)

\* line.split_once('='): <<key, value>> as the body of the if-let sees them
\* (key trimmed and lower-cased, value trimmed); None without a '='
SplitKeyValue(l) ==
    LET k == Find(l, EQ, 1)
    IN  IF k = 0 THEN None
        ELSE [ key   |-> ToLowercase(Trim(SubSeq(l, 1, k - 1))),
               value |-> Trim(SubSeq(l, k + 1, Len(l))) ]

\* the match on the key
ApplyKeyValue(cfg, key, value) ==
    CASE key = K_show_icons       -> [cfg EXCEPT !.show_icons = ParseBool(value)]
      [] key = K_show_permissions -> [cfg EXCEPT !.show_permissions = ParseBool(value)]
      [] key = K_show_owner       -> [cfg EXCEPT !.show_owner = ParseBool(value)]
      [] key = K_show_group       -> [cfg EXCEPT !.show_group = ParseBool(value)]
      [] key = K_show_modified    -> [cfg EXCEPT !.show_modified = ParseBool(value)]
      [] key = K_use_fuzzy_time   -> [cfg EXCEPT !.use_fuzzy_time = ParseBool(value)]
      [] key = K_column_format    -> [cfg EXCEPT !.column_format = ParseBool(value)]
      [] key = K_sort_dirs_first  -> [cfg EXCEPT !.sort_dirs_first = ParseBool(value)]
      [] key = K_show_hidden      -> [cfg EXCEPT !.show_hidden = ParseBool(value)]
      [] key = K_long_format      -> [cfg EXCEPT !.long_format = ParseBool(value)]
      [] key = K_column_order     -> [cfg EXCEPT !.column_order = ParseColumnOrder(value)]
      [] OTHER -> cfg

\* one iteration of the loop of Config::parse_config over a raw line
ParseLine(cfg, raw) ==
    LET l == Trim(raw)
    IN  IF l = <<>> \/ StartsWith(l, HASH) THEN cfg
        ELSE LET kv == SplitKeyValue(l)
             IN  IF kv = None THEN cfg ELSE ApplyKeyValue(cfg, kv.key, kv.value)

\* Config::parse_config over the lines of the file, in order
RECURSIVE ParseConfig(_, _)
ParseConfig(cfg, lines) ==
    IF lines = <<>> THEN cfg ELSE ParseConfig(ParseLine(cfg, Head(lines)), Tail(lines))

---------------------------------------------------------------------------
(* SystemTime and Duration: whole seconds and nanoseconds. *)

UNIX_EPOCH == [secs |-> 0, nanos |-> 0]

TimeLeq(a, b) == a.secs < b.secs \/ (a.secs = b.secs /\ a.nanos <= b.nanos)

\* SystemTime::duration_since: Ok(later - earlier), or Err (None) when earlier
\* is after later
DurationSince(later, earlier) ==
    IF ~TimeLeq(earlier, later) THEN None
    ELSE IF later.nanos >= earlier.nanos
         THEN [secs |-> later.secs - earlier.secs, nanos |-> later.nanos - earlier.nanos]
         ELSE [secs  |-> later.secs - earlier.secs - 1,
               nanos |-> later.nanos + 1000000000 - earlier.nanos]

\* Duration::as_secs
AsSecs(d) == d.secs

S_unknown == <<117, 110, 107, 110, 111, 119, 110>>   \* "unknown"
S_future == <<102, 117, 116, 117, 114, 101>>         \* "future"
S_now == <<110, 111, 119>>                           \* "now"

\* "1 <unit>" when n is 1, "<n> <unit>s" otherwise
Count(n, unit) ==
    IF n = 1 THEN <<49, SP>> \o unit ELSE Decimal(n) \o <<SP>> \o unit \o <<115>>

U_second == <<115, 101, 99, 111, 110, 100>>   \* "second"
U_minute == <<109, 105, 110, 117, 116, 101>>  \* "minute"
U_hour == <<104, 111, 117, 114>>              \* "hour"
U_day == <<100, 97, 121>>                     \* "day"
U_week == <<119, 101, 101, 107>>              \* "week"
U_month == <<109, 111, 110, 116, 104>>        \* "month"
U_year == <<121, 101, 97, 114>>               \* "year"

\* A match whose first bucket ends one second late (0..=60).
FuzzyTextLateMinute(seconds) ==
    CASE seconds >= 0 /\ seconds <= 60 ->
            IF seconds = 0 THEN S_now ELSE Count(seconds, U_second)
      [] seconds >= 61 /\ seconds <= 3599 -> Count(seconds \div 60, U_minute)
      [] seconds >= 3600 /\ seconds <= 86399 -> Count(seconds \div 3600, U_hour)
      [] seconds >= 86400 /\ seconds <= 604799 -> Count(seconds \div 86400, U_day)
      [] seconds >= 604800 /\ seconds <= 2629743 -> Count(seconds \div 604800, U_week)
      [] seconds >= 2629744 /\ seconds <= 31556925 -> Count(seconds \div 2629744, U_month)
      [] OTHER -> Count(seconds \div 31556926, U_year)

\* the match on seconds of format_duration_since
FuzzyText(seconds) ==
    CASE seconds >= 0 /\ seconds <= 59 ->
            IF seconds = 0 THEN S_now ELSE Count(seconds, U_second)
      [] seconds >= 60 /\ seconds <= 3599 -> Count(seconds \div 60, U_minute)
      [] seconds >= 3600 /\ seconds <= 86399 -> Count(seconds \div 3600, U_hour)
      [] seconds >= 86400 /\ seconds <= 604799 -> Count(seconds \div 86400, U_day)
      [] seconds >= 604800 /\ seconds <= 2629743 -> Count(seconds \div 604800, U_week)
      [] seconds >= 2629744 /\ seconds <= 31556925 -> Count(seconds \div 2629744, U_month)
      [] OTHER -> Count(seconds \div 31556926, U_year)

\* format_duration_since; now is what SystemTime::now() returns
FormatDurationSince(modified_time, use_fuzzy, now) ==
    IF ~use_fuzzy
    THEN LET duration == DurationSince(modified_time, UNIX_EPOCH)
         IN  IF duration = None THEN S_unknown
             ELSE LET secs == AsSecs(duration)
                      days == secs \div 86400
                      hours == (secs % 86400) \div 3600
                      minutes == (secs % 3600) \div 60
                  IN  Decimal(days % 365) \o <<100, SP>>        \* "d "
                        \o Decimal(hours) \o <<104, 58>>        \* "h:"
                        \o Decimal(minutes) \o <<109>>          \* "m"
    ELSE LET duration == DurationSince(now, modified_time)
         IN  IF duration = None THEN S_future ELSE FuzzyText(AsSecs(duration))

---------------------------------------------------------------------------
(* get_file_icon.  The glyphs are the characters of the source file's       *)
(* string literals.                                                         *)

\* position of the last c in s, 0 when there is none
RECURSIVE RFind(_, _, _)
RFind(s, c, i) ==
    IF i < 1 THEN 0 ELSE IF s[i] = c THEN i ELSE RFind(s, c, i - 1)

\* Path::new(filename).extension() of a plain file name, "" for None: the part
\* after the last '.', unless there is no '.' or the only one is the first
\* character
Extension(filename) ==
    LET k == RFind(filename, DOT, Len(filename))
    IN  IF k <= 1 \/ filename = <<DOT, DOT>> THEN <<>>
        ELSE SubSeq(filename, k + 1, Len(filename))

ICON_DIR == <<240, 376, 8220>>
ICON_HIDDEN == <<243, 176, 732, 8220>>
ICON_FILE == <<240, 376, 8220, 8222>>

\* the extension arms of the match, "" when no arm names the extension
ExtensionIcon(ext) ==
    CASE ext \in {<<114, 115>>}
            -> <<240, 376, 166, 8364>>   \* rs
      [] ext \in {<<112, 121>>}
            -> <<240, 376>>   \* py
      [] ext \in {<<106, 115>>}
            -> <<243, 176, 338, 382>>   \* js
      [] ext \in {<<116, 115>>}
            -> <<243, 176, 8250, 166>>   \* ts
      [] ext \in {<<104, 116, 109, 108>>, <<104, 116, 109>>}
            -> <<243, 176, 338>>   \* html | htm
      [] ext \in {<<99, 115, 115>>}
            -> <<243, 176, 338, 339>>   \* css
      [] ext \in {<<106, 115, 111, 110>>}
            -> <<243, 176, 732, 166>>   \* json
      [] ext \in {<<109, 100>>, <<109, 97, 114, 107, 100, 111, 119, 110>>}
            -> <<243, 176, 8221>>   \* md | markdown
      [] ext \in {<<116, 120, 116>>}
            -> <<243, 176, 710, 8482>>   \* txt
      [] ext \in {<<112, 100, 102>>}
            -> <<243, 176, 710, 166>>   \* pdf
      [] ext \in {<<122, 105, 112>>, <<116, 97, 114>>, <<103, 122>>, <<114, 97, 114>>}
            -> <<240, 376, 8212, 339, 239, 184>>   \* zip | tar | gz | rar
      [] ext \in {<<106, 112, 103>>, <<106, 112, 101, 103>>, <<112, 110, 103>>, <<103, 105, 102>>, <<98, 109, 112>>, <<115, 118, 103>>}
            -> <<240, 376, 8211, 188, 239, 184>>   \* jpg | jpeg | png | gif | bmp | svg
      [] ext \in {<<109, 112, 51>>, <<119, 97, 118>>, <<102, 108, 97, 99>>, <<111, 103, 103>>}
            -> <<240, 376, 381, 181>>   \* mp3 | wav | flac | ogg
      [] ext \in {<<109, 112, 52>>, <<109, 107, 118>>, <<97, 118, 105>>, <<109, 111, 118>>}
            -> <<240, 376, 381, 172>>   \* mp4 | mkv | avi | mov
      [] ext \in {<<101, 120, 101>>, <<98, 105, 110>>}
            -> <<226, 353, 8482, 239, 184>>   \* exe | bin
      [] ext \in {<<116, 111, 109, 108>>, <<121, 97, 109, 108>>, <<121, 109, 108>>, <<105, 110, 105>>, <<99, 111, 110, 102>>}
            -> <<226, 353, 8482, 239, 184>>   \* toml | yaml | yml | ini | conf
      [] ext \in {<<99>>, <<104>>}
            -> <<243, 176, 8482, 177>>   \* c | h
      [] ext \in {<<99, 112, 112>>, <<99, 99>>, <<99, 120, 120>>, <<104, 112, 112>>}
            -> <<243, 176, 8482, 178>>   \* cpp | cc | cxx | hpp
      [] ext \in {<<106, 97, 118, 97>>}
            -> <<243, 176, 172, 183>>   \* java
      [] ext \in {<<112, 104, 112>>}
            -> <<243, 176, 338, 376>>   \* php
      [] ext \in {<<114, 98>>}
            -> <<243, 176, 180, 173>>   \* rb
      [] ext \in {<<103, 111>>}
            -> <<243, 176, 376, 8220>>   \* go
      [] ext \in {<<115, 104>>, <<98, 97, 115, 104>>, <<122, 115, 104>>}
            -> <<243, 176, 8224>>   \* sh | bash | zsh
      [] ext \in {<<115, 113, 108>>}
            -> <<243, 176, 8224, 188>>   \* sql
      [] ext \in {<<120, 109, 108>>}
            -> <<243, 176, 8212, 8364>>   \* xml
      [] ext \in {<<108, 111, 103>>}
            -> <<243, 176, 338, 177>>   \* log
      [] ext \in {<<108, 111, 99, 107>>}
            -> <<243, 176, 338, 190>>   \* lock
      [] ext \in {<<100, 111, 99, 107, 101, 114, 102, 105, 108, 101>>}
            -> <<240, 376, 179>>   \* dockerfile
      [] ext \in {<<118, 117, 101>>}
            -> <<243, 176, 161, 8222>>   \* vue
      [] ext \in {<<114, 101, 97, 99, 116>>, <<106, 115, 120>>, <<116, 115, 120>>}
            -> <<243, 176, 339, 710>>   \* react | jsx | tsx
      [] ext \in {<<103, 105, 116>>}
            -> <<243, 176, 352, 162>>   \* git
      [] ext \in {<<110, 111, 100, 101>>}
            -> <<243, 176, 381, 8482>>   \* node
      [] ext \in {<<110, 112, 109>>}
            -> <<243, 176, 381, 8482>>   \* npm
      [] ext \in {<<121, 97, 114, 110>>}
            -> <<243, 176, 172, 183>>   \* yarn
      [] ext \in {<<100, 111, 99, 107, 101, 114>>}
            -> <<240, 376, 179>>   \* docker
      [] OTHER -> <<>>

GetFileIcon(filename, is_dir) ==
    IF is_dir THEN ICON_DIR
    ELSE LET glyph == ExtensionIcon(ToLowercase(Extension(filename)))
         IN  IF glyph # <<>> THEN glyph
             ELSE IF StartsWith(filename, DOT) THEN ICON_HIDDEN
             ELSE ICON_FILE

---------------------------------------------------------------------------
(* NameCache *)

COLON == 58   \* ':'

\* str::parse::<u32> for the identifiers of the model's tables: an optional
\* '+' and decimal digits (at most nine here, below the u32 overflow); -1 for
\* Err
RECURSIVE DigitsValue(_, _)
DigitsValue(s, acc) ==
    IF s = <<>> THEN acc ELSE DigitsValue(Tail(s), acc * 10 + (Head(s) - 48))

ParseU32(s) ==
    LET body == IF StartsWith(s, 43) THEN Tail(s) ELSE s
    IN  IF body = <<>> \/ Len(body) > 9
           \/ \E i \in 1..Len(body) : body[i] < 48 \/ body[i] > 57
        THEN -1
        ELSE DigitsValue(body, 0)

\* the loop over the lines of /etc/passwd or /etc/group: id -> name, a later
\* line replacing an earlier one with the same id
RECURSIVE LoadNames(_, _)
LoadNames(lines, map) ==
    IF lines = <<>> THEN map
    ELSE LET parts == Split(Head(lines), COLON)
             id == IF Len(parts) >= 3 THEN ParseU32(parts[3]) ELSE -1
         IN  LoadNames(Tail(lines),
                       IF id = -1 THEN map
                       ELSE [k \in DOMAIN map \cup {id} |->
                               IF k = id THEN parts[1] ELSE map[k]])

EmptyMap == [k \in {} |-> <<>>]

\* An optional file: <<>> when it is missing or unreadable, else <<lines>>.
NoFile == <<>>
SomeFile(lines) == <<lines>>

\* NameCache::new; a file that cannot be opened leaves its map empty
NameCacheNew(passwd, group) ==
    [ users  |-> IF passwd = NoFile THEN EmptyMap ELSE LoadNames(passwd[1], EmptyMap),
      groups |-> IF group = NoFile THEN EmptyMap ELSE LoadNames(group[1], EmptyMap) ]

\* NameCache::get_user_name
GetUserName(cache, uid) ==
    IF uid \in DOMAIN cache.users THEN cache.users[uid] ELSE Decimal(uid)

\* NameCache::get_group_name
GetGroupName(cache, gid) ==
    IF gid \in DOMAIN cache.groups THEN cache.groups[gid] ELSE Decimal(gid)

---------------------------------------------------------------------------
(* FileEntry *)

\* Metadata::is_dir: the file type bits of st_mode are S_IFDIR (0o040000)
IsDir(mode) == (mode \div 4096) % 16 = 4

\* format!("{:o}", mode & 0o777)
Permissions(mode) == Digits(mode % 512, 8)

\* FileEntry::new.  entry is [name, meta]; meta is None when entry.metadata()
\* fails, else [mode, uid, gid, modified], modified None when
\* metadata.modified() fails.  Returns None for Err.
FileEntryNew(entry, cache, cfg, now) ==
    IF entry.meta = None THEN None
    ELSE LET metadata == entry.meta
             is_dir == IsDir(metadata.mode)
         IN  [ name          |-> entry.name,
               permissions   |-> Permissions(metadata.mode),
               owner         |-> GetUserName(cache, metadata.uid),
               group         |-> GetGroupName(cache, metadata.gid),
               modified_text |-> IF metadata.modified = None THEN S_unknown
                                 ELSE FormatDurationSince(metadata.modified,
                                                          cfg.use_fuzzy_time, now),
               icon          |-> GetFileIcon(entry.name, is_dir),
               is_dir        |-> is_dir ]

RESET == <<ESC, 91, 48, 109>>            \* "\x1b[0m"
BLUE_BOLD == <<ESC, 91, 51, 52, 59, 49, 109>> \* "\x1b[34;1m"
YELLOW == <<ESC, 91, 51, 51, 109>>       \* "\x1b[33m"
GREEN == <<ESC, 91, 51, 50, 109>>        \* "\x1b[32m"
CYAN == <<ESC, 91, 51, 54, 109>>         \* "\x1b[36m"
MAGENTA == <<ESC, 91, 51, 53, 109>>      \* "\x1b[35m"

\* the name part: "{}{}{}" of name_color, name, reset as format_display
\* chooses them
NamePart(e) ==
    IF e.is_dir THEN BLUE_BOLD \o e.name \o RESET ELSE e.name

\* A match whose group arm has no guard.
ColumnsArmGroupAlways(column, e, cfg, w) ==
    CASE column = S_icon /\ cfg.show_icons -> <<e.icon \o <<SP, SP>>>>
      [] column = S_permissions /\ cfg.show_permissions ->
            <<YELLOW \o PadLeft(e.permissions, w.perms) \o RESET>>
      [] column = S_owner /\ cfg.show_owner ->
            <<GREEN \o PadLeft(e.owner, w.owner) \o RESET>>
      [] column = S_group -> <<CYAN \o PadLeft(e.group, w.group) \o RESET>>
      [] column = S_modified /\ cfg.show_modified ->
            <<MAGENTA \o PadLeft(e.modified_text, w.modified) \o RESET>>
      [] column = S_name -> <<NamePart(e)>>
      [] OTHER -> <<>>

\* one arm of the match of format_columns: the parts a column identifier
\* pushes (one or none)
ColumnsArm(column, e, cfg, w) ==
    CASE column = S_icon /\ cfg.show_icons -> <<e.icon \o <<SP, SP>>>>
      [] column = S_permissions /\ cfg.show_permissions ->
            <<YELLOW \o PadLeft(e.permissions, w.perms) \o RESET>>
      [] column = S_owner /\ cfg.show_owner ->
            <<GREEN \o PadLeft(e.owner, w.owner) \o RESET>>
      [] column = S_group /\ cfg.show_group ->
            <<CYAN \o PadLeft(e.group, w.group) \o RESET>>
      [] column = S_modified /\ cfg.show_modified ->
            <<MAGENTA \o PadLeft(e.modified_text, w.modified) \o RESET>>
      [] column = S_name -> <<NamePart(e)>>
      [] OTHER -> <<>>

\* one arm of the match of format_simple
SimpleArm(column, e, cfg) ==
    CASE column = S_icon /\ cfg.show_icons -> <<e.icon>>
      [] column = S_permissions /\ cfg.show_permissions ->
            <<YELLOW \o e.permissions \o RESET>>
      [] column = S_owner /\ cfg.show_owner -> <<GREEN \o e.owner \o RESET>>
      [] column = S_group /\ cfg.show_group -> <<CYAN \o e.group \o RESET>>
      [] column = S_modified /\ cfg.show_modified ->
            <<MAGENTA \o e.modified_text \o RESET>>
      [] column = S_name -> <<NamePart(e)>>
      [] OTHER -> <<>>

\* the parts the arms pushed, in the order of the loop over column_order
RECURSIVE Concat(_)
Concat(ss) == IF ss = <<>> THEN <<>> ELSE Head(ss) \o Concat(Tail(ss))

\* FileEntry::format_columns
FormatColumns(e, cfg, w) ==
    LET parts == Concat([i \in 1..Len(cfg.column_order) |->
                            ColumnsArm(cfg.column_order[i], e, cfg, w)])
    IN  Join(parts, <<SP>>)

\* FileEntry::format_simple
FormatSimple(e, cfg) ==
    LET parts == Concat([i \in 1..Len(cfg.column_order) |->
                            SimpleArm(cfg.column_order[i], e, cfg)])
    IN  Join(parts, <<SP>>)

\* FileEntry::format_display
FormatDisplay(e, cfg, w) ==
    IF cfg.column_format THEN FormatColumns(e, cfg, w) ELSE FormatSimple(e, cfg)

---------------------------------------------------------------------------
(* The ordering policy and the column widths of main. *)

\* A closure that compares the names alone, whatever sort_dirs_first is.
CompareNamesOnly(a, b, cfg) == StrCmp(ToLowercase(a.name), ToLowercase(b.name))

\* the closure main hands to sort_by
Compare(a, b, cfg) ==
    IF cfg.sort_dirs_first
    THEN CASE a.is_dir /\ ~b.is_dir -> "Less"
           [] ~a.is_dir /\ b.is_dir -> "Greater"
           [] OTHER -> StrCmp(ToLowercase(a.name), ToLowercase(b.name))
    ELSE StrCmp(ToLowercase(a.name), ToLowercase(b.name))

\* An insertion that puts x before the elements equal to it: an unstable sort.
RECURSIVE InsertBeforeEqual(_, _, _)
InsertBeforeEqual(x, s, cfg) ==
    IF s = <<>> THEN <<x>>
    ELSE IF Compare(Head(s), x, cfg) # "Less" THEN <<x>> \o s
    ELSE <<Head(s)>> \o InsertBeforeEqual(x, Tail(s), cfg)

\* x put into the sorted sequence s behind every element that is not greater
\* than it
RECURSIVE Insert(_, _, _)
Insert(x, s, cfg) ==
    IF s = <<>> THEN <<x>>
    ELSE IF Compare(Head(s), x, cfg) = "Greater" THEN <<x>> \o s
    ELSE <<Head(s)>> \o Insert(x, Tail(s), cfg)

\* slice::sort_by: a stable sort (an insertion sort, as the standard library
\* runs on short slices)
RECURSIVE SortBy(_, _)
SortBy(s, cfg) ==
    IF s = <<>> THEN <<>>
    ELSE Insert(s[Len(s)], SortBy(SubSeq(s, 1, Len(s) - 1), cfg), cfg)

\* iter().map(f).max().unwrap_or(0)
RECURSIVE MaxOf(_)
MaxOf(ns) ==
    IF ns = <<>> THEN 0
    ELSE LET m == MaxOf(Tail(ns)) IN IF Head(ns) > m THEN Head(ns) ELSE m

MaxLen(strings) == MaxOf([i \in 1..Len(strings) |-> Len(strings[i])])

\* Widths taken from the first entry alone.
ColumnWidthsOfFirst(entries, cfg) ==
    IF cfg.column_format /\ entries # <<>>
    THEN [ perms    |-> IF cfg.show_permissions THEN Len(entries[1].permissions) ELSE 0,
           owner    |-> IF cfg.show_owner THEN Len(entries[1].owner) ELSE 0,
           group    |-> IF cfg.show_group THEN Len(entries[1].group) ELSE 0,
           modified |-> IF cfg.show_modified THEN Len(entries[1].modified_text) ELSE 0 ]
    ELSE [perms |-> 0, owner |-> 0, group |-> 0, modified |-> 0]

\* the tuple (max_perms_len, max_owner_len, max_group_len, max_modified_len)
ColumnWidths(entries, cfg) ==
    IF cfg.column_format
    THEN [ perms    |-> IF cfg.show_permissions
                        THEN MaxLen([i \in 1..Len(entries) |-> entries[i].permissions])
                        ELSE 0,
           owner    |-> IF cfg.show_owner
                        THEN MaxLen([i \in 1..Len(entries) |-> entries[i].owner])
                        ELSE 0,
           group    |-> IF cfg.show_group
                        THEN MaxLen([i \in 1..Len(entries) |-> entries[i].group])
                        ELSE 0,
           modified |-> IF cfg.show_modified
                        THEN MaxLen([i \in 1..Len(entries) |-> entries[i].modified_text])
                        ELSE 0 ]
    ELSE [perms |-> 0, owner |-> 0, group |-> 0, modified |-> 0]

---------------------------------------------------------------------------
(* The environment of a run: the directory, the clock, the config file and *)
(* the identity databases.                                                 *)

\* the instant SystemTime::now() returns during the run
Clock == [secs |-> 1800000000, nanos |-> 500000000]

Ago(seconds) == [secs |-> Clock.secs - seconds, nanos |-> 0]

N_b_txt == <<98, 46, 116, 120, 116>>   \* "b.txt"
N_A == <<65>>                          \* "A"
N_a_rs == <<97, 46, 114, 115>>         \* "a.rs"
N_A_RS == <<65, 46, 82, 83>>           \* "A.RS"
N_a == <<97>>                          \* "a"
N_dot_h == <<DOT, 104>>                \* ".h"

\* st_mode file types
S_IFREG == 8 * 4096   \* 0o100000
S_IFDIR == 4 * 4096   \* 0o040000

\* The entries a directory of the model may hold, each with the metadata a
\* successful read returns.
Files ==
    { [name |-> N_b_txt, meta |-> [mode |-> S_IFREG + 420, uid |-> 1000, gid |-> 100,
                                   modified |-> Ago(59)]],          \* 0o644
      [name |-> N_A,     meta |-> [mode |-> S_IFDIR + 493, uid |-> 0, gid |-> 0,
                                   modified |-> Ago(3600)]],        \* 0o755
      [name |-> N_a_rs,  meta |-> [mode |-> S_IFREG + 36, uid |-> 4242, gid |-> 100,
                                   modified |-> Ago(-5)]],          \* 0o044
      [name |-> N_A_RS,  meta |-> [mode |-> S_IFREG + 384, uid |-> 0, gid |-> 0,
                                   modified |-> Ago(0)]],           \* 0o600
      [name |-> N_a,     meta |-> [mode |-> S_IFREG + 0, uid |-> 1000, gid |-> 4242,
                                   modified |-> None]],             \* 0o000
      [name |-> N_dot_h, meta |-> [mode |-> S_IFREG + 420, uid |-> 0, gid |-> 100,
                                   modified |-> Ago(86400)]] }      \* 0o644

\* current_dir.display()
CurrentDirPath == <<47, 100>>   \* "/d"

\* /etc/passwd and /etc/group
PasswdFile ==
    << <<114, 111, 111, 116, 58, 120, 58, 48, 58, 48, 58, 114, 111, 111, 116,
         58, 47, 114, 111, 111, 116, 58, 47, 98, 105, 110, 47, 115, 104>>,
                                          \* "root:x:0:0:root:/root:/bin/sh"
       <<35, 32, 110, 111, 32, 102, 105, 101, 108, 100, 115>>,  \* "# no fields"
       <<98, 97, 100, 58, 120, 58, 110, 111, 116, 97, 110, 117, 109, 98, 101,
         114, 58, 49>>,                   \* "bad:x:notanumber:1"
       <<97, 108, 105, 99, 101, 58, 120, 58, 49, 48, 48, 48, 58, 49, 48, 48, 58,
         58, 47, 104, 111, 109, 101, 47, 97, 108, 105, 99, 101, 58, 47, 98, 105,
         110, 47, 115, 104>> >>           \* "alice:x:1000:100::/home/alice:/bin/sh"

GroupFile ==
    << <<114, 111, 111, 116, 58, 120, 58, 48, 58>>,             \* "root:x:0:"
       <<117, 115, 101, 114, 115, 58, 120, 58, 49, 48, 48, 58, 97, 108, 105,
         99, 101>> >>                     \* "users:x:100:alice"

\* What opening /etc/passwd and /etc/group gives in the model: both files,
\* or neither (a system without identity databases).
IdentityFiles ==
    { <<SomeFile(PasswdFile), SomeFile(GroupFile)>>, <<NoFile, NoFile>> }

KV(key, value) == key \o <<EQ>> \o value

S_size == <<115, 105, 122, 101>>      \* "size", no column of the vocabulary
S_bogus == <<98, 111, 103, 117, 115>> \* "bogus", no column of the vocabulary
V_maybe == <<109, 97, 121, 98, 101>>  \* "maybe", no boolean spelling
L_comment == <<HASH, SP, 121, 97, 108, 46, 99, 111, 110, 102>>  \* "# yal.conf"

\* The config files of the model (the lines of each).
ConfigFiles ==
    { << L_comment, KV(K_show_hidden, V_true), KV(K_sort_dirs_first, V_false) >>,
      << KV(K_column_order, Join(<<S_name, S_permissions>>, <<COMMA>>)),
         KV(K_show_owner, V_false) >>,
      << KV(K_column_format, V_false),
         KV(K_column_order \o <<SP>>,
            <<SP>> \o S_size \o <<COMMA, SP>> \o S_name \o <<SP, COMMA, COMMA>> \o S_icon),
         KV(K_show_icons, V_off), KV(K_show_hidden, V_yes) >>,
      << KV(K_column_order,
            Join(<<S_modified, S_bogus, S_owner, S_group, S_permissions>>, <<COMMA>>)),
         KV(K_show_group, V_0), KV(K_use_fuzzy_time, V_no), KV(K_show_hidden, V_on) >>,
      << KV(K_column_format, V_false), KV(K_show_modified, V_maybe) >> }

---------------------------------------------------------------------------
(* main *)

NoWidths == [perms |-> 0, owner |-> 0, group |-> 0, modified |-> 0]

EMPTY_MSG ==   \* " Empty directory"
    <<SP, 69, 109, 112, 116, 121, SP, 100, 105, 114, 101, 99, 116, 111, 114, 121>>

\* format!(" {} ({} items)", current_dir.display(), file_entries.len())
HeaderLine(path, count) ==
    <<SP>> \o path \o <<SP, 40>> \o Decimal(count)
           \o <<SP, 105, 116, 101, 109, 115, 41>>

Init ==
    /\ pc = "current_dir"
    /\ os = [current_dir |-> "pending", read_dir |-> "pending", next |-> "pending"]
    /\ config = None
    /\ line = <<>>
    /\ nlines = 0
    /\ name_cache = None
    /\ listing = <<>>
    /\ file_entries = <<>>
    /\ widths = NoWidths
    /\ next_entry = 0
    /\ out = <<>>
    /\ result = "running"
    /\ arg = None
    /\ ret = None

\* let current_dir = env::current_dir()?;
CurrentDir ==
    /\ pc = "current_dir"
    /\ \E r \in {"ok", "err"} :
         /\ os' = [os EXCEPT !.current_dir = r]
         /\ pc' = IF r = "ok" THEN "read_dir" ELSE "done"
         /\ result' = IF r = "ok" THEN result ELSE "err"
    /\ UNCHANGED <<config, line, nlines, name_cache, listing, file_entries,
                   widths, next_entry, out, arg, ret>>

\* let entries = fs::read_dir(&current_dir)?;
ReadDir ==
    /\ pc = "read_dir"
    /\ \E r \in {"ok", "err"} :
         /\ os' = [os EXCEPT !.read_dir = r]
         /\ pc' = IF r = "ok" THEN "load" ELSE "done"
         /\ result' = IF r = "ok" THEN result ELSE "err"
    /\ UNCHANGED <<config, line, nlines, name_cache, listing, file_entries,
                   widths, next_entry, out, arg, ret>>

\* Config::load: the defaults, changed by the lines of the config file found
\* (no file found, or an unreadable one, leaves the defaults)
ConfigLoad(file) ==
    IF file = NoFile THEN DefaultConfig ELSE ParseConfig(DefaultConfig, file[1])

\* let config = Config::load();
LoadConfig ==
    /\ pc = "load"
    /\ \E file \in {NoFile} \cup {SomeFile(f) : f \in ConfigFiles} :
         config' = ConfigLoad(file)
    /\ pc' = "name_cache"
    /\ UNCHANGED <<os, line, nlines, name_cache, listing, file_entries, widths,
                   next_entry, out, result, arg, ret>>

\* let name_cache = NameCache::new();
NewNameCache ==
    /\ pc = "name_cache"
    /\ \E files \in IdentityFiles : name_cache' = NameCacheNew(files[1], files[2])
    /\ pc' = "collect"
    /\ UNCHANGED <<os, config, line, nlines, listing, file_entries, widths,
                   next_entry, out, result, arg, ret>>

Names(s) == {s[i].name : i \in 1..Len(s)}

\* An iteration that keeps an entry whose metadata cannot be read, with
\* placeholders for what it does not know.
CollectStepKeepsUnreadable(f, meta) ==
    IF ~config.show_hidden /\ StartsWith(f.name, DOT)
    THEN /\ listing' = Append(listing, [name |-> f.name, metadata |-> "unread"])
         /\ UNCHANGED file_entries
    ELSE LET file_entry == FileEntryNew([name |-> f.name, meta |-> meta],
                                        name_cache, config, Clock)
         IN  /\ listing' = Append(listing,
                    [name |-> f.name,
                     metadata |-> IF meta = None THEN "err" ELSE "ok"])
             /\ file_entries' =
                  IF file_entry = None
                  THEN Append(file_entries,
                              [name |-> f.name, permissions |-> <<63>>,
                               owner |-> <<63>>, group |-> <<63>>,
                               modified_text |-> S_unknown,
                               icon |-> ICON_FILE, is_dir |-> FALSE])
                  ELSE Append(file_entries, file_entry)

\* An iteration that resolves every entry and drops the hidden ones after.
CollectStepFilterAfterRead(f, meta) ==
    LET file_entry == FileEntryNew([name |-> f.name, meta |-> meta],
                                   name_cache, config, Clock)
    IN  /\ listing' = Append(listing,
               [name |-> f.name,
                metadata |-> IF meta = None THEN "err" ELSE "ok"])
        /\ file_entries' =
             IF file_entry = None \/ (~config.show_hidden /\ StartsWith(f.name, DOT))
             THEN file_entries
             ELSE Append(file_entries, file_entry)

\* One iteration of `for entry in entries`: the enumeration yields an error
\* (entry? returns it), or an entry, which is skipped as hidden before its
\* metadata is read, or resolved by FileEntry::new, whose metadata read
\* succeeds or fails.
CollectStep(f, meta) ==
    IF ~config.show_hidden /\ StartsWith(f.name, DOT)
    THEN /\ listing' = Append(listing, [name |-> f.name, metadata |-> "unread"])
         /\ UNCHANGED file_entries
    ELSE LET file_entry == FileEntryNew([name |-> f.name, meta |-> meta],
                                        name_cache, config, Clock)
         IN  /\ listing' = Append(listing,
                    [name |-> f.name,
                     metadata |-> IF meta = None THEN "err" ELSE "ok"])
             /\ file_entries' = IF file_entry = None THEN file_entries
                                ELSE Append(file_entries, file_entry)

CollectEntry ==
    /\ pc = "collect"
    /\ Len(listing) < MaxEntries
    /\ \E f \in Files :
         /\ f.name \notin Names(listing)
         /\ \E meta \in {None, f.meta} : CollectStep(f, meta)
    /\ UNCHANGED <<pc, os, config, line, nlines, name_cache, widths, next_entry,
                   out, result, arg, ret>>

CollectError ==
    /\ pc = "collect"
    /\ os' = [os EXCEPT !.next = "err"]
    /\ pc' = "done"
    /\ result' = "err"
    /\ UNCHANGED <<config, line, nlines, name_cache, listing, file_entries,
                   widths, next_entry, out, arg, ret>>

CollectEnd ==
    /\ pc = "collect"
    /\ os' = [os EXCEPT !.next = "end"]
    /\ pc' = "sort"
    /\ UNCHANGED <<config, line, nlines, name_cache, listing, file_entries,
                   widths, next_entry, out, result, arg, ret>>

\* file_entries.sort_by(...)
Sort ==
    /\ pc = "sort"
    /\ file_entries' = SortBy(file_entries, config)
    /\ pc' = "header"
    /\ UNCHANGED <<os, config, line, nlines, name_cache, listing, widths,
                   next_entry, out, result, arg, ret>>

\* A header step without the is_empty check.
HeaderWithoutEmptyCheck ==
    /\ pc = "header"
    /\ out' = out \o <<HeaderLine(CurrentDirPath, Len(file_entries)), <<>>>>
    /\ pc' = "widths"
    /\ UNCHANGED <<os, config, line, nlines, name_cache, listing, file_entries,
                   widths, next_entry, result, arg, ret>>

\* the empty-directory message and return, or the header and the empty line
Header ==
    /\ pc = "header"
    /\ IF file_entries = <<>>
       THEN /\ out' = Append(out, EMPTY_MSG)
            /\ result' = "ok"
            /\ pc' = "done"
       ELSE /\ out' = out \o <<HeaderLine(CurrentDirPath, Len(file_entries)), <<>>>>
            /\ result' = result
            /\ pc' = "widths"
    /\ UNCHANGED <<os, config, line, nlines, name_cache, listing, file_entries,
                   widths, next_entry, arg, ret>>

\* let (max_perms_len, max_owner_len, max_group_len, max_modified_len) = ...
Widths ==
    /\ pc = "widths"
    /\ widths' = ColumnWidths(file_entries, config)
    /\ next_entry' = 1
    /\ pc' = "display"
    /\ UNCHANGED <<os, config, line, nlines, name_cache, listing, file_entries,
                   out, result, arg, ret>>

\* one iteration of `for entry in &file_entries`
Display ==
    /\ pc = "display"
    /\ next_entry <= Len(file_entries)
    /\ out' = Append(out, FormatDisplay(file_entries[next_entry], config, widths))
    /\ next_entry' = next_entry + 1
    /\ UNCHANGED <<pc, os, config, line, nlines, name_cache, listing,
                   file_entries, widths, result, arg, ret>>

\* Ok(())
Return ==
    /\ pc = "display"
    /\ next_entry > Len(file_entries)
    /\ result' = "ok"
    /\ pc' = "done"
    /\ UNCHANGED <<os, config, line, nlines, name_cache, listing, file_entries,
                   widths, next_entry, out, arg, ret>>

Next ==
    \/ CurrentDir
    \/ ReadDir
    \/ LoadConfig
    \/ NewNameCache
    \/ CollectEntry
    \/ CollectError
    \/ CollectEnd
    \/ Sort
    \/ Header
    \/ Widths
    \/ Display
    \/ Return

Spec == Init /\ [][Next]_vars

---------------------------------------------------------------------------
(* Config::parse_config on its own: the parser reads a config file line by *)
(* line, starting from the defaults.                                       *)

BoolKeys ==
    { K_show_icons, K_show_permissions, K_show_owner, K_show_group,
      K_show_modified, K_use_fuzzy_time, K_column_format, K_sort_dirs_first,
      K_show_hidden, K_long_format }

V_TRUE == <<84, 82, 85, 69>>                       \* "TRUE"
V_Yes == <<89, 101, 115>>                          \* "Yes"
V_On == <<79, 110>>                                \* "On"
V_ENABLED == <<69, 78, 65, 66, 76, 69, 68>>        \* "ENABLED"
V_Disabled == <<68, 105, 115, 97, 98, 108, 101, 100>> \* "Disabled"
V_2 == <<50>>                                      \* "2"
V_truee == <<116, 114, 117, 101, 101>>             \* "truee"
K_SHOW_ICONS == <<83, 72, 79, 87, 95, 73, 67, 79, 78, 83>> \* "SHOW_ICONS"
K_colour == <<99, 111, 108, 111, 117, 114>>        \* "colour", no key of the parser

Spellings ==
    { V_true, V_yes, V_1, V_on, V_enabled, V_false, V_no, V_0, V_off, V_disabled,
      V_TRUE, V_Yes, V_On, V_ENABLED, V_Disabled, V_maybe, V_2, V_truee, <<>> }

\* The lines a config file of the model is made of.
ConfigLines ==
    {KV(k, v) : k \in BoolKeys, v \in {V_true, V_off, V_maybe}}
    \cup {KV(k, v) : k \in {K_show_icons, K_show_hidden}, v \in Spellings}
    \cup { KV(K_SHOW_ICONS, V_no),
           <<SP>> \o KV(K_show_owner \o <<SP>>, <<SP>> \o V_Yes \o <<SP>>),
           KV(K_colour, V_true),
           KV(<<>>, V_true),
           KV(KV(K_show_group, V_true), V_true),
           <<HASH>> \o KV(K_show_icons, V_false),
           L_comment,
           <<>>,
           <<SP, SP>>,
           K_show_icons,
           KV(K_column_order, Join(<<S_name, S_bogus, S_owner>>, <<COMMA>>)) }

InitConfig ==
    /\ pc = "parse_config"
    /\ os = [current_dir |-> "pending", read_dir |-> "pending", next |-> "pending"]
    /\ config = DefaultConfig
    /\ line = <<>>
    /\ nlines = 0
    /\ name_cache = None
    /\ listing = <<>>
    /\ file_entries = <<>>
    /\ widths = NoWidths
    /\ next_entry = 0
    /\ out = <<>>
    /\ result = "running"
    /\ arg = None
    /\ ret = None

\* one iteration of `for line in contents.lines()`
ParseConfigLine ==
    /\ pc = "parse_config"
    /\ nlines < MaxLines
    /\ \E l \in ConfigLines :
         /\ config' = ParseLine(config, l)
         /\ line' = l
    /\ nlines' = nlines + 1
    /\ UNCHANGED <<pc, os, name_cache, listing, file_entries, widths,
                   next_entry, out, result, arg, ret>>

NextConfig == ParseConfigLine

SpecConfig == InitConfig /\ [][NextConfig]_vars

---------------------------------------------------------------------------
(* format_duration_since on its own. *)

\* the first second of each bucket of the match, and of the second year
BucketEdges == {0, 1, 60, 3600, 86400, 604800, 2629744, 31556926, 63113852}

\* whole seconds between the modification time and the clock reading
ElapsedSeconds ==
    {b + d : b \in BucketEdges, d \in (0 - Slack)..Slack}
    \cup {120, 7199, 172800, 1209600, 5259488, -86400, -31556926}

ClockReadings == {Clock, [Clock EXCEPT !.nanos = 0]}

DurationArgs ==
    {[modified_time |-> [secs |-> now.secs - e, nanos |-> n],
      use_fuzzy |-> f, now |-> now] :
        e \in ElapsedSeconds, n \in {0, 250000000, 750000000},
        f \in BOOLEAN, now \in ClockReadings}
    \cup {[modified_time |-> [secs |-> -1, nanos |-> 0],
           use_fuzzy |-> f, now |-> Clock] : f \in BOOLEAN}

InitDuration ==
    /\ pc = "format_duration_since"
    /\ arg \in DurationArgs
    /\ ret = <<>>
    /\ os = [current_dir |-> "pending", read_dir |-> "pending", next |-> "pending"]
    /\ config = None
    /\ line = <<>>
    /\ nlines = 0
    /\ name_cache = None
    /\ listing = <<>>
    /\ file_entries = <<>>
    /\ widths = NoWidths
    /\ next_entry = 0
    /\ out = <<>>
    /\ result = "running"

CallFormatDurationSince ==
    /\ pc = "format_duration_since"
    /\ ret' = FormatDurationSince(arg.modified_time, arg.use_fuzzy, arg.now)
    /\ pc' = "returned"
    /\ UNCHANGED <<os, config, line, nlines, name_cache, listing, file_entries,
                   widths, next_entry, out, result, arg>>

NextDuration == CallFormatDurationSince

SpecDuration == InitDuration /\ [][NextDuration]_vars

---------------------------------------------------------------------------
(* FileEntry::new on its own, over every permission and special mode bit   *)
(* of a regular file and of a directory.                                   *)

EntryArgs ==
    {[name |-> N_b_txt,
      meta |-> [mode |-> t + p, uid |-> 0, gid |-> 4242, modified |-> Ago(59)]] :
        t \in {S_IFREG, S_IFDIR}, p \in 0..4095}

InitEntry ==
    /\ pc = "file_entry_new"
    /\ arg \in EntryArgs
    /\ ret = None
    /\ os = [current_dir |-> "pending", read_dir |-> "pending", next |-> "pending"]
    /\ config = DefaultConfig
    /\ line = <<>>
    /\ nlines = 0
    /\ name_cache = NameCacheNew(SomeFile(PasswdFile), SomeFile(GroupFile))
    /\ listing = <<>>
    /\ file_entries = <<>>
    /\ widths = NoWidths
    /\ next_entry = 0
    /\ out = <<>>
    /\ result = "running"

CallFileEntryNew ==
    /\ pc = "file_entry_new"
    /\ ret' = FileEntryNew(arg, name_cache, config, Clock)
    /\ pc' = "returned"
    /\ UNCHANGED <<os, config, line, nlines, name_cache, listing, file_entries,
                   widths, next_entry, out, result, arg>>

NextEntry == CallFileEntryNew

SpecEntry == InitEntry /\ [][NextEntry]_vars

---------------------------------------------------------------------------
(* Claims about Config::parse_bool and Config::parse_config (SpecConfig).  *)

TrueSpellings == {V_true, V_yes, V_1, V_on, V_enabled}

RecognizedKeys == BoolKeys \cup {K_column_order}

\* the toggle a boolean key names
ToggleOf(cfg, key) ==
    CASE key = K_show_icons       -> cfg.show_icons
      [] key = K_show_permissions -> cfg.show_permissions
      [] key = K_show_owner       -> cfg.show_owner
      [] key = K_show_group       -> cfg.show_group
      [] key = K_show_modified    -> cfg.show_modified
      [] key = K_use_fuzzy_time   -> cfg.use_fuzzy_time
      [] key = K_column_format    -> cfg.column_format
      [] key = K_sort_dirs_first  -> cfg.sort_dirs_first
      [] key = K_show_hidden      -> cfg.show_hidden
      [] key = K_long_format      -> cfg.long_format

\* the key and the value of a `key=value` line (surrounding white space
\* dropped, the key lower-cased), None for a blank line, a comment or a line
\* without '='
KeyValueOf(l) ==
    LET t == Trim(l)
    IN  IF t = <<>> \/ StartsWith(t, HASH) THEN None ELSE SplitKeyValue(t)

\* C10: whenever parse_config processes a line `key=value` whose key is a
\* boolean key, the toggle is afterwards true exactly when the lower-cased
\* value is one of true, yes, 1, on, enabled, whatever it was before; a line
\* whose key is not recognized leaves the whole configuration unchanged.
C10_ParseBoolDecidesToggle ==
    [][ nlines' = nlines + 1 =>
          LET kv == KeyValueOf(line')
          IN  kv # None =>
                /\ kv.key \in BoolKeys =>
                     ToggleOf(config', kv.key) = (ToLowercase(kv.value) \in TrueSpellings)
                /\ kv.key \notin RecognizedKeys => config' = config ]_vars

\* show_icons, true by default, is false after `show_icons=maybe`
C10_Witness ==
    /\ nlines >= 1
    /\ line = KV(K_show_icons, V_maybe)
    /\ ~config.show_icons

---------------------------------------------------------------------------
(* Claims about format_duration_since (SpecDuration).                      *)

\* the signed whole seconds from the modification time to the clock reading,
\* rounded down: negative exactly when the modification time is later
SignedElapsed(a) ==
    a.now.secs - a.modified_time.secs
      - (IF a.now.nanos < a.modified_time.nanos THEN 1 ELSE 0)

\* "<n> <unit>", the unit in the plural unless n is 1
Worded(n, unit) ==
    Decimal(n) \o <<SP>> \o unit \o (IF n = 1 THEN <<>> ELSE <<115>>)

\* the bucket table
BucketText(e) ==
    IF e < 0 THEN S_future
    ELSE IF e = 0 THEN S_now
    ELSE IF e < 60 THEN Worded(e, U_second)
    ELSE IF e < 3600 THEN Worded(e \div 60, U_minute)
    ELSE IF e < 86400 THEN Worded(e \div 3600, U_hour)
    ELSE IF e < 604800 THEN Worded(e \div 86400, U_day)
    ELSE IF e < 2629744 THEN Worded(e \div 604800, U_week)
    ELSE IF e < 31556926 THEN Worded(e \div 2629744, U_month)
    ELSE Worded(e \div 31556926, U_year)

\* C6: with use_fuzzy_time, format_duration_since returns the text of the
\* bucket table for the signed elapsed whole seconds: "future" for every
\* negative value, "now" for 0, then seconds, minutes, hours, days, weeks,
\* months and years, singular exactly for a count of 1; 59 gives
\* "59 seconds", 60 "1 minute", 3599 "59 minutes", 3600 "1 hour".
C6_FuzzyBuckets ==
    (pc = "returned" /\ arg.use_fuzzy) =>
        LET e == SignedElapsed(arg)
        IN  /\ ret = BucketText(e)
            /\ e = 59 => ret = <<53, 57, SP, 115, 101, 99, 111, 110, 100, 115>>
            /\ e = 60 => ret = <<49, SP, 109, 105, 110, 117, 116, 101>>
            /\ e = 3599 => ret = <<53, 57, SP, 109, 105, 110, 117, 116, 101, 115>>
            /\ e = 3600 => ret = <<49, SP, 104, 111, 117, 114>>

\* an elapsed time of exactly 3600 s has been formatted as "1 hour"
C6_Witness ==
    /\ pc = "returned"
    /\ arg.use_fuzzy
    /\ SignedElapsed(arg) = 3600
    /\ ret = <<49, SP, 104, 111, 117, 114>>

---------------------------------------------------------------------------
(* Claims about FileEntry::new (SpecEntry).                                *)

\* C5: the permissions string of a resolved entry is mode & 0o777 as exactly
\* three octal digits, zero-padded.
C5_ThreeOctalDigits ==
    pc = "returned" =>
        LET bits == arg.meta.mode % 512
        IN  ret.permissions =
              <<48 + (bits \div 64), 48 + ((bits \div 8) % 8), 48 + (bits % 8)>>

---------------------------------------------------------------------------
(* Claims about main (Spec).                                               *)

\* the sort of main has run
AfterSort == pc \in {"header", "widths", "display"} \/ (pc = "done" /\ result = "ok")

\* main has returned Ok(())
Succeeded == pc = "done" /\ result = "ok"

NamesOf(s) == [i \in 1..Len(s) |-> s[i].name]

\* position of the entry called name in the enumeration
EnumPos(name) == CHOOSE i \in 1..Len(listing) : listing[i].name = name

LowerLeq(a, b) == StrCmp(ToLowercase(a), ToLowercase(b)) # "Greater"

Occurrences(s, x) == Cardinality({i \in 1..Len(s) : s[i] = x})

IsPermutation(s, t) ==
    /\ Len(s) = Len(t)
    /\ \A i \in 1..Len(s) : Occurrences(s, s[i]) = Occurrences(t, s[i])

\* adjacent entries are in the order the configuration asks for
C1_Ordered ==
    \A i \in 1..(Len(file_entries) - 1) :
        LET a == file_entries[i]
            b == file_entries[i + 1]
        IN  IF config.sort_dirs_first
            THEN /\ ~(~a.is_dir /\ b.is_dir)
                 /\ (a.is_dir = b.is_dir) => LowerLeq(a.name, b.name)
            ELSE LowerLeq(a.name, b.name)

\* the enumeration b.txt, A (a directory), a.rs, every entry readable
C1_Example ==
    /\ NamesOf(listing) = <<N_b_txt, N_A, N_a_rs>>
    /\ \A i \in 1..Len(listing) : listing[i].metadata = "ok"

\* C1: after the sort, with sort_dirs_first no file precedes a directory and
\* entries of the same directory-ness are in non-decreasing order of their
\* lower-cased names; without it all entries are in non-decreasing order of
\* their lower-cased names; the enumeration b.txt, A (dir), a.rs gives
\* A, a.rs, b.txt with sort_dirs_first; the sort permutes the collection.
C1_SortOrder ==
    /\ [](AfterSort => C1_Ordered)
    /\ []((AfterSort /\ config.sort_dirs_first /\ C1_Example)
             => NamesOf(file_entries) = <<N_A, N_a_rs, N_b_txt>>)
    /\ [][pc = "sort" => IsPermutation(file_entries, file_entries')]_vars

\* the example has been sorted
C1_Witness ==
    /\ AfterSort
    /\ config.sort_dirs_first
    /\ C1_Example
    /\ NamesOf(file_entries) = <<N_A, N_a_rs, N_b_txt>>

SameLowerName(a, b) == ToLowercase(a.name) = ToLowercase(b.name)

\* C2 as stated: with sort_dirs_first, any two entries whose names are equal
\* case-insensitively keep their enumeration order.
C2_TiesKeepEnumerationOrder ==
    (AfterSort /\ config.sort_dirs_first) =>
        \A i, j \in 1..Len(file_entries) :
            (i < j /\ SameLowerName(file_entries[i], file_entries[j]))
                => EnumPos(file_entries[i].name) < EnumPos(file_entries[j].name)

\* C2 amended: with sort_dirs_first, any two entries that are both
\* directories or both files and whose names are equal case-insensitively
\* keep their enumeration order.
C2_TiesOfOneKindKeepEnumerationOrder ==
    (AfterSort /\ config.sort_dirs_first) =>
        \A i, j \in 1..Len(file_entries) :
            ( /\ i < j
              /\ file_entries[i].is_dir = file_entries[j].is_dir
              /\ SameLowerName(file_entries[i], file_entries[j]) )
                => EnumPos(file_entries[i].name) < EnumPos(file_entries[j].name)

\* a.rs was enumerated before A.RS and is still before it, against the order
\* of their raw names
C2_Witness ==
    /\ AfterSort
    /\ config.sort_dirs_first
    /\ NamesOf(listing) = <<N_a_rs, N_A_RS>>
    /\ NamesOf(file_entries) = <<N_a_rs, N_A_RS>>

\* the names the enumeration yielded with the given metadata outcome
Yielded(outcome) ==
    {listing[i].name : i \in {k \in 1..Len(listing) : listing[k].metadata = outcome}}

\* the number of lines a successful run prints for n entries
LinesFor(n) == IF n = 0 THEN 1 ELSE n + 2

\* C3: a run ends with an error exactly when the working directory cannot be
\* determined or the enumeration fails; otherwise it succeeds, the
\* collection holds exactly the entries whose metadata was read, the ones
\* whose metadata could not be read are missing from it, and the output is
\* the one of the collection, with no line more for a dropped entry.
C3_MetadataFailureDropsEntry ==
    pc = "done" =>
        /\ result \in {"ok", "err"}
        /\ result = "err" <=>
              (os.current_dir = "err" \/ os.read_dir = "err" \/ os.next = "err")
        /\ result = "ok" =>
              /\ {file_entries[i].name : i \in 1..Len(file_entries)} = Yielded("ok")
              /\ Len(file_entries) = Cardinality(Yielded("ok"))
              /\ \A n \in Yielded("err") :
                    \A i \in 1..Len(file_entries) : file_entries[i].name # n
              /\ Len(out) = LinesFor(Cardinality(Yielded("ok")))

\* a run succeeded although one entry's metadata could not be read, and
\* shows the readable one
C3_Witness ==
    /\ Succeeded
    /\ Yielded("err") # {}
    /\ Yielded("ok") # {}
    /\ Len(out) = LinesFor(Len(file_entries))

IsHiddenName(name) == StartsWith(name, DOT)

\* C4: with show_hidden off no entry of the collection has a name starting
\* with '.', and no metadata read was attempted for such a name; with
\* show_hidden on every such entry whose metadata was read is in the
\* collection; an entry whose name does not start with '.' has its metadata
\* read and is in the collection when that succeeds, whatever show_hidden is.
C4_HiddenFilter ==
    config # None =>
        /\ ~config.show_hidden =>
              /\ \A i \in 1..Len(file_entries) : ~IsHiddenName(file_entries[i].name)
              /\ \A i \in 1..Len(listing) :
                    IsHiddenName(listing[i].name) => listing[i].metadata = "unread"
        /\ config.show_hidden =>
              \A i \in 1..Len(listing) :
                  (IsHiddenName(listing[i].name) /\ listing[i].metadata = "ok")
                      => \E k \in 1..Len(file_entries) :
                            file_entries[k].name = listing[i].name
        /\ \A i \in 1..Len(listing) :
              ~IsHiddenName(listing[i].name) =>
                  /\ listing[i].metadata \in {"ok", "err"}
                  /\ listing[i].metadata = "ok" =>
                        \E k \in 1..Len(file_entries) :
                            file_entries[k].name = listing[i].name

\* .h was enumerated with show_hidden off and skipped unread, next to an
\* entry that was resolved
C4_Witness ==
    /\ pc = "sort"
    /\ ~config.show_hidden
    /\ \E i \in 1..Len(listing) :
          listing[i].name = N_dot_h /\ listing[i].metadata = "unread"
    /\ file_entries # <<>>

\* the display lines printed so far, in order (they follow the header and
\* the empty line)
DisplayLines == IF Len(out) <= 2 THEN <<>> ELSE SubSeq(out, 3, Len(out))

Contains(s, sub) ==
    \E i \in 1..(Len(s) - Len(sub) + 1) : SubSeq(s, i, i + Len(sub) - 1) = sub

AlignedColumns == {S_permissions, S_owner, S_group, S_modified}

\* a column identifier of the vocabulary whose toggle, if it has one, is on
ColumnEnabled(c) ==
    \/ c = S_name
    \/ c = S_icon /\ config.show_icons
    \/ c = S_permissions /\ config.show_permissions
    \/ c = S_owner /\ config.show_owner
    \/ c = S_group /\ config.show_group
    \/ c = S_modified /\ config.show_modified

ColumnValue(c, e) ==
    CASE c = S_permissions -> e.permissions
      [] c = S_owner -> e.owner
      [] c = S_group -> e.group
      [] c = S_modified -> e.modified_text

ColumnColour(c) ==
    CASE c = S_permissions -> YELLOW
      [] c = S_owner -> GREEN
      [] c = S_group -> CYAN
      [] c = S_modified -> MAGENTA

ColumnWidthVar(c) ==
    CASE c = S_permissions -> widths.perms
      [] c = S_owner -> widths.owner
      [] c = S_group -> widths.group
      [] c = S_modified -> widths.modified

\* the part of a display line that shows column c of entry e, the aligned
\* values padded to the widths main computed
ColumnPart(c, e) ==
    IF c = S_name THEN NamePart(e)
    ELSE IF c = S_icon
         THEN e.icon \o (IF config.column_format THEN <<SP, SP>> ELSE <<>>)
    ELSE ColumnColour(c)
           \o (IF config.column_format
               THEN Spaces(ColumnWidthVar(c) - Len(ColumnValue(c, e))) ELSE <<>>)
           \o ColumnValue(c, e) \o RESET

\* the identifiers of column_order that contribute a part
SelectedColumns == SelectSeq(config.column_order, ColumnEnabled)

ExpectedLine(e) ==
    Join([i \in 1..Len(SelectedColumns) |-> ColumnPart(SelectedColumns[i], e)], <<SP>>)

\* C7: in both layouts every display line is made of one part for each
\* identifier of column_order that is a column of the vocabulary and is
\* enabled, in the order of column_order, joined by single spaces; unknown
\* and disabled identifiers add neither a part nor a separator, and a
\* column that column_order does not list is absent.  With
\* column_order=name,permissions and show_owner off the line is
\* "{name} {permissions}", without owner and group.
C7_ColumnSelection ==
    \A k \in 1..Len(DisplayLines) :
        LET e == file_entries[k]
            shown == DisplayLines[k]
        IN  /\ shown = ExpectedLine(e)
            /\ (config.column_order = <<S_name, S_permissions>> /\ ~config.show_owner)
                  => /\ shown = NamePart(e) \o <<SP>> \o ColumnPart(S_permissions, e)
                     /\ ~Contains(shown, GREEN)
                     /\ ~Contains(shown, CYAN)

\* a line has been printed under a column_order that names an unknown
\* column and a disabled one next to enabled ones
C7_Witness ==
    /\ DisplayLines # <<>>
    /\ \E i \in 1..Len(config.column_order) : config.column_order[i] = S_bogus
    /\ \E i \in 1..Len(config.column_order) :
          config.column_order[i] = S_group /\ ~config.show_group
    /\ Len(SelectedColumns) = 3

\* the greatest length of column c's value over the collection
MaxWidth(c) ==
    CHOOSE w \in {Len(ColumnValue(c, file_entries[i])) : i \in 1..Len(file_entries)} :
        \A i \in 1..Len(file_entries) : Len(ColumnValue(c, file_entries[i])) <= w

Listed(c) == \E i \in 1..Len(config.column_order) : config.column_order[i] = c

\* the widths of main have been computed
AfterWidths == pc = "display" \/ (Succeeded /\ file_entries # <<>>)

\* C8: with column_format, the width main computes for permissions, owner,
\* group and modified is the greatest length of that column's value over
\* the collection when the column is enabled and 0 when it is disabled, and
\* every display line shows the value of each enabled column it lists
\* right-aligned in exactly that width, spaces on the left and nothing cut;
\* without column_format each value is shown at its own length.
C8_AlignedWidths ==
    AfterWidths =>
        /\ config.column_format =>
              \A c \in AlignedColumns :
                  ColumnWidthVar(c) = IF ColumnEnabled(c) THEN MaxWidth(c) ELSE 0
        /\ \A k \in 1..Len(DisplayLines), c \in AlignedColumns :
              (ColumnEnabled(c) /\ Listed(c)) =>
                  LET value == ColumnValue(c, file_entries[k])
                      cell == IF config.column_format
                              THEN Spaces(MaxWidth(c) - Len(value)) \o value
                              ELSE value
                  IN  /\ config.column_format => Len(cell) = MaxWidth(c)
                      /\ Contains(DisplayLines[k], ColumnColour(c) \o cell \o RESET)

\* a collection whose permissions are "44" and "644" has been printed in
\* columns of width 3
C8_Witness ==
    /\ Succeeded
    /\ config.column_format
    /\ config.show_permissions
    /\ Listed(S_permissions)
    /\ widths.perms = 3
    /\ \E i \in 1..Len(file_entries) : Len(file_entries[i].permissions) = 2
    /\ Len(DisplayLines) = Len(file_entries)

\* "{directoryPath} ({count} items)"
HeaderText(path, count) ==
    path \o <<SP, 40>> \o Decimal(count) \o <<SP, 105, 116, 101, 109, 115, 41>>

\* C9: a successful run with an empty collection prints the empty-directory
\* message and nothing else; with a non-empty collection it prints the
\* header "{directoryPath} ({count} items)" (behind one space), count being
\* the number of entries of the collection, an empty line, then exactly one
\* display line for each entry, in order, and never the empty-directory
\* message.
C9_EmptyMessageOrHeader ==
    Succeeded =>
        IF file_entries = <<>>
        THEN out = <<EMPTY_MSG>>
        ELSE /\ Len(out) = Len(file_entries) + 2
             /\ out[1] = <<SP>> \o HeaderText(CurrentDirPath, Len(file_entries))
             /\ out[2] = <<>>
             /\ \A k \in 1..Len(file_entries) :
                   out[k + 2] = FormatDisplay(file_entries[k], config, widths)
             /\ \A i \in 1..Len(out) : out[i] # EMPTY_MSG

\* the directory was not empty, but nothing of it was left to show
C9_Witness ==
    /\ Succeeded
    /\ listing # <<>>
    /\ file_entries = <<>>
    /\ out = <<EMPTY_MSG>>

===========================================================================
